---- MODULE Spec2Model ----
(***************************************************************************)
(* Model of scale_service.py: a command-line run that reads the instance   *)
(* count of a remote service (GET), computes a target count and, unless    *)
(* the target equals the count read or --dry-run is set, posts the target  *)
(* (POST .../scale).  The remote service is shared state: other actors and *)
(* other runs of the tool can change it between a run's GET and its POST.  *)
(***************************************************************************)
EXTENDS Integers, Sequences, FiniteSets, TLC

\* ------------------------------------------------------------------ bounds
MaxCount == 3   \* largest instance count the service starts with / others set
MaxN     == 5   \* largest value given to a scaling flag
MaxNeg   == 2   \* magnitude of the most negative value given to a scaling flag

Runs == {1, 2}

\* An optional value (Python None or a value) is <<>> or <<v>>.
None == <<>>
Some(v) == <<v>>

NRange == (0 - MaxNeg)..MaxN
OptInt == {None} \cup {Some(n) : n \in NRange}
KeyValues == {None, Some(""), Some("rnd_key")}

\* exit_code of a run that has not exited yet
NoExit == 0 - 1

VARIABLES
    remote,             \* the service's instance count on the server
    args,               \* args[r]: the parsed command line (argparse namespace)
    environ,            \* environ[r]: RENDER_API_KEY in the run's environment
    pc,                 \* pc[r]: position of run r in main
    exit_code,          \* exit_code[r]: process exit status
    out,                \* out[r]: messages printed so far (stdout and stderr)
    service,            \* service[r]: outcome of get_service
    current_instances,  \* current_instances[r]: optional, set at line 168
    target_instances,   \* target_instances[r]: optional, set at lines 176-181
    result,             \* result[r]: outcome of scale_service
    fetches,            \* fetches[r]: number of GET requests issued
    updates,            \* updates[r]: num_instances of each POST issued
    changed             \* changed[r]: the server applied r's POST and the count moved

vars == <<remote, args, environ, pc, exit_code, out, service, current_instances,
          target_instances, result, fetches, updates, changed>>

\* ------------------------------------------------------------ command line
ArgsSet ==
    [num_instances : OptInt, increase_by : OptInt, decrease_by : OptInt,
     api_key : KeyValues, dry_run : BOOLEAN, verbose : BOOLEAN]

NoArgs ==
    [num_instances |-> None, increase_by |-> None, decrease_by |-> None,
     api_key |-> None, dry_run |-> FALSE, verbose |-> FALSE]

\* Number of flags of the mutually exclusive group present on the command line.
GivenScaleFlags(a) ==
    (IF a.num_instances # None THEN 1 ELSE 0)
    + (IF a.increase_by # None THEN 1 ELSE 0)
    + (IF a.decrease_by # None THEN 1 ELSE 0)

\* parse_args accepts the command line: the group is required and exclusive;
\* type=int takes any integer, negative ones included.
ParseOk(a) == GivenScaleFlags(a) = 1

\* Variant: tests only for None, so an empty key counts as a key.
TruthyNotNone(k) == k # None

\* Python truthiness of an optional string.
Truthy(k) == k # None /\ k[1] # ""

\* args.api_key or os.environ.get("RENDER_API_KEY")
ApiKey(a, e) == IF Truthy(a.api_key) THEN a.api_key ELSE e

\* ---------------------------------------------------------------- requests
NoResponse == [kind |-> "none", numInstances |-> None]

\* What a GET of the service can produce when the server's count is n.
GetResponses(n) ==
    { [kind |-> "ok", numInstances |-> Some(n)],       \* 2xx, serviceDetails.numInstances
      [kind |-> "ok", numInstances |-> None],          \* 2xx, object without numInstances
      [kind |-> "nonobj", numInstances |-> None],      \* 2xx, JSON that is not an object
      [kind |-> "http_error", numInstances |-> None],  \* non-2xx
      [kind |-> "transport", numInstances |-> None],   \* DNS, connection, timeout
      [kind |-> "bad_json", numInstances |-> None] }   \* 2xx, body is not JSON

\* Variant: a body that is not JSON is taken for an empty service object.
GetRaisesNoJsonError(resp) == resp.kind \in {"http_error", "transport"}

\* get_service raises (lines 67-71) instead of returning.
GetRaises(resp) == resp.kind \in {"http_error", "transport", "bad_json"}

\* What a POST .../scale can produce.
ScaleResponses ==
    { "ok",             \* applied, 2xx with a JSON body
      "ok_bad_body",    \* applied, 2xx with a body that is not JSON (e.g. empty)
      "lost_response",  \* applied, the response never arrives
      "http_error",     \* rejected with a non-2xx status
      "transport" }     \* the request never reaches the server

\* The server applied the POST.
Applied(resp) == resp \in {"ok", "ok_bad_body", "lost_response"}

\* scale_service raises (lines 96-100) instead of returning.
ScaleRaises(resp) == resp # "ok"

\* ------------------------------------------------------------ decision logic
\* service.get("serviceDetails", {}).get("numInstances", 0)
NumInstances(resp) == IF resp.numInstances # None THEN resp.numInstances[1] ELSE 0

Max(a, b) == IF a >= b THEN a ELSE b

\* Variant: the floor at 0 applied to every mode.
TargetInstancesClampAll(a, current) ==
    IF a.num_instances # None THEN Max(0, a.num_instances[1])
    ELSE IF a.increase_by # None THEN Max(0, current + a.increase_by[1])
    ELSE Max(0, current - a.decrease_by[1])

\* Variant: --decrease-by without the floor at 0.
TargetInstancesNoClamp(a, current) ==
    IF a.num_instances # None THEN a.num_instances[1]
    ELSE IF a.increase_by # None THEN current + a.increase_by[1]
    ELSE current - a.decrease_by[1]

\* Lines 176-181, for a command line parse_args accepted.
TargetInstances(a, current) ==
    IF a.num_instances # None THEN a.num_instances[1]
    ELSE IF a.increase_by # None THEN current + a.increase_by[1]
    ELSE Max(0, current - a.decrease_by[1])

\* Variant: the validation of line 184 left out.
NegativeTargetUnchecked(target) == FALSE

\* Line 184.
NegativeTarget(target) == target < 0

\* Variant: the no-op test of line 192 left out.
AtTargetUnchecked(target, current) == FALSE

\* Line 192.
AtTarget(target, current) == target = current

\* Variant: --dry-run ignored.
DryRunIgnored(a) == FALSE

\* Line 196.
DryRun(a) == a.dry_run

\* Variant: the delta is applied to the count at the time of the update.
PostedDelta(r) == remote + (target_instances[r][1] - current_instances[r][1])

\* Line 202: the count handed to scale_service.
PostedCount(r) == target_instances[r][1]

\* ------------------------------------------------------------------- state
TypeOK ==
    /\ remote \in Nat
    /\ args \in [Runs -> ArgsSet]
    /\ environ \in [Runs -> KeyValues]
    /\ pc \in [Runs -> {"unused", "start", "get", "decide", "scale", "done"}]
    /\ exit_code \in [Runs -> {NoExit, 0, 1, 2}]
    /\ fetches \in [Runs -> Nat]
    /\ changed \in [Runs -> BOOLEAN]

Blank ==
    /\ exit_code = [r \in Runs |-> NoExit]
    /\ out = [r \in Runs |-> <<>>]
    /\ service = [r \in Runs |-> NoResponse]
    /\ current_instances = [r \in Runs |-> None]
    /\ target_instances = [r \in Runs |-> None]
    /\ result = [r \in Runs |-> "none"]
    /\ fetches = [r \in Runs |-> 0]
    /\ updates = [r \in Runs |-> <<>>]
    /\ changed = [r \in Runs |-> FALSE]

\* One invocation of the tool, any command line, beside other actors.
Init ==
    /\ remote \in 0..MaxCount
    /\ \E a \in ArgsSet : args = [r \in Runs |-> IF r = 1 THEN a ELSE NoArgs]
    /\ \E e \in KeyValues : environ = [r \in Runs |-> IF r = 1 THEN e ELSE None]
    /\ pc = [r \in Runs |-> IF r = 1 THEN "start" ELSE "unused"]
    /\ Blank

\* Command lines of the two-run specification: relative scaling by a
\* non-negative delta, a key on the command line, no --dry-run.
RelativeArgs ==
    { a \in ArgsSet :
        /\ a.num_instances = None
        /\ GivenScaleFlags(a) = 1
        /\ a.api_key = Some("rnd_key") /\ ~a.dry_run /\ ~a.verbose
        /\ \A f \in {a.increase_by, a.decrease_by} : f # None => f[1] \in 0..MaxN }

\* Two invocations of the tool against the same service.
InitTwo ==
    /\ remote \in 0..MaxCount
    /\ args \in [Runs -> RelativeArgs]
    /\ environ = [r \in Runs |-> None]
    /\ pc = [r \in Runs |-> "start"]
    /\ Blank

\* ----------------------------------------------------------------- actions
Exit(r, code, msgs) ==
    /\ pc' = [pc EXCEPT ![r] = "done"]
    /\ exit_code' = [exit_code EXCEPT ![r] = code]
    /\ out' = [out EXCEPT ![r] = out[r] \o msgs]

\* main, lines 105-165: parse the command line, find the API key.
ParseArgs(r) ==
    /\ pc[r] = "start"
    /\ IF ~ParseOk(args[r])
         THEN Exit(r, 2, <<"usage">>)
         ELSE IF ~Truthy(ApiKey(args[r], environ[r]))
           THEN Exit(r, 1, <<"err_api_key">>)
           ELSE /\ pc' = [pc EXCEPT ![r] = "get"]
                /\ out' = [out EXCEPT ![r] =
                             IF args[r].verbose THEN <<"fetching">> ELSE <<>>]
                /\ UNCHANGED exit_code
    /\ UNCHANGED <<remote, args, environ, service, current_instances,
                   target_instances, result, fetches, updates, changed>>

\* get_service, lines 59-71, and main's handler, lines 210-212.
GetService(r) ==
    /\ pc[r] = "get"
    /\ \E resp \in GetResponses(remote) :
         /\ service' = [service EXCEPT ![r] = resp]
         /\ IF GetRaises(resp)
              THEN Exit(r, 1, <<"err_exception">>)
              ELSE /\ pc' = [pc EXCEPT ![r] = "decide"]
                   /\ UNCHANGED <<exit_code, out>>
    /\ fetches' = [fetches EXCEPT ![r] = fetches[r] + 1]
    /\ UNCHANGED <<remote, args, environ, current_instances, target_instances,
                   result, updates, changed>>

\* main, lines 168-201: read the count, compute the target, decide.
Decide(r) ==
    /\ pc[r] = "decide"
    /\ IF service[r].kind = "nonobj"
         THEN \* service.get raises AttributeError, caught at line 210
              /\ Exit(r, 1, <<"err_exception">>)
              /\ UNCHANGED <<current_instances, target_instances>>
         ELSE LET current == NumInstances(service[r])
                  target  == TargetInstances(args[r], current)
                  seen    == IF args[r].verbose THEN <<"service", "current">> ELSE <<>>
              IN /\ current_instances' = [current_instances EXCEPT ![r] = Some(current)]
                 /\ target_instances' = [target_instances EXCEPT ![r] = Some(target)]
                 /\ IF NegativeTarget(target)
                      THEN Exit(r, 1, seen \o <<"err_negative">>)
                      ELSE IF AtTarget(target, current)
                        THEN Exit(r, 0, seen \o <<"plan", "already_at_target">>)
                        ELSE IF DryRun(args[r])
                          THEN Exit(r, 0, seen \o <<"plan", "dry_run">>)
                          ELSE /\ pc' = [pc EXCEPT ![r] = "scale"]
                               /\ out' = [out EXCEPT ![r] =
                                            out[r] \o seen \o <<"plan", "scaling">>]
                               /\ UNCHANGED exit_code
    /\ UNCHANGED <<remote, args, environ, service, result, fetches, updates, changed>>

\* scale_service, lines 86-100, and main, lines 202-212.
ScaleService(r) ==
    /\ pc[r] = "scale"
    /\ \E resp \in ScaleResponses :
         /\ result' = [result EXCEPT ![r] = resp]
         /\ remote' = IF Applied(resp) THEN PostedCount(r) ELSE remote
         /\ changed' = [changed EXCEPT ![r] = Applied(resp) /\ PostedCount(r) # remote]
         /\ IF ScaleRaises(resp)
              THEN Exit(r, 1, <<"err_exception">>)
              ELSE Exit(r, 0, IF args[r].verbose THEN <<"success", "response">>
                                                 ELSE <<"success">>)
    /\ updates' = [updates EXCEPT ![r] = Append(updates[r], PostedCount(r))]
    /\ UNCHANGED <<args, environ, service, current_instances, target_instances, fetches>>

\* Another actor changes the service's instance count while a run is in flight.
ExternalScale ==
    /\ \E r \in Runs : pc[r] \in {"get", "decide", "scale"}
    /\ \E n \in 0..MaxCount : n # remote /\ remote' = n
    /\ UNCHANGED <<args, environ, pc, exit_code, out, service, current_instances,
                   target_instances, result, fetches, updates, changed>>

Next ==
    \/ \E r \in Runs : ParseArgs(r)
    \/ \E r \in Runs : GetService(r)
    \/ \E r \in Runs : Decide(r)
    \/ \E r \in Runs : ScaleService(r)
    \/ ExternalScale

NextTwo ==
    \/ \E r \in Runs : ParseArgs(r)
    \/ \E r \in Runs : GetService(r)
    \/ \E r \in Runs : Decide(r)
    \/ \E r \in Runs : ScaleService(r)

Spec == Init /\ [][Next]_vars

SpecTwo == InitTwo /\ [][NextTwo]_vars

\* ------------------------------------------------------------------ claims
Done(r) == pc[r] = "done"

LastOut(r) == out[r][Len(out[r])]

Absolute(a) == ParseOk(a) /\ a.num_instances # None
Increase(a) == ParseOk(a) /\ a.increase_by # None
Decrease(a) == ParseOk(a) /\ a.decrease_by # None

\* The delta of a relative request is not negative.
NonNegativeDelta(a) ==
    \A f \in {a.increase_by, a.decrease_by} : f # None => f[1] >= 0

KeyMissing(r) ==
    /\ args[r].api_key \in {None, Some("")}
    /\ environ[r] \in {None, Some("")}

\* The target a relative request yields from the count read at fetch time.
SnapshotTarget(r) ==
    LET c == current_instances[r][1]
    IN IF args[r].increase_by # None THEN c + args[r].increase_by[1]
       ELSE IF c - args[r].decrease_by[1] > 0 THEN c - args[r].decrease_by[1]
       ELSE 0

\* C1 (as claimed): a run that ends with exit code 1 has not changed the
\* service's instance count.  Stated for requests whose delta is not
\* negative, so that a violation does not rest on a negative delta.
NoPartialSuccess ==
    \A r \in Runs :
        NonNegativeDelta(args[r]) /\ Done(r) /\ exit_code[r] = 1 => ~changed[r]

\* C2 (as claimed): a run given --increase-by n or --decrease-by n with n < 0
\* is rejected before any fetch or update, so no negative delta reaches the
\* target computation.
NegativeDeltaRejected ==
    \A r \in Runs :
        (\/ Increase(args[r]) /\ args[r].increase_by[1] < 0
         \/ Decrease(args[r]) /\ args[r].decrease_by[1] < 0)
        => /\ fetches[r] = 0
           /\ updates[r] = <<>>
           /\ target_instances[r] = None

\* C3: whatever the mode and the integer given (negative ones included), the
\* count passed to scale_service is never negative.
PostedCountNeverNegative ==
    \A r \in Runs : \A i \in DOMAIN updates[r] : updates[r][i] >= 0

\* C3 witness: an update was issued by a run given a negative argument.
NegativeArgPosted ==
    \E r \in Runs :
        /\ Decrease(args[r]) /\ args[r].decrease_by[1] < 0
        /\ updates[r] # <<>>

\* C4 (as claimed): every run requesting --num-instances n with n < 0 ends with
\* the negative-target error, exit code 1, and never invokes the update.
AbsoluteNegativeIsValidationError ==
    \A r \in Runs :
        Done(r) /\ Absolute(args[r]) /\ args[r].num_instances[1] < 0
        => /\ LastOut(r) = "err_negative"
           /\ exit_code[r] = 1
           /\ updates[r] = <<>>

\* C4 (amended): every run requesting --num-instances n with n < 0 ends with
\* exit code 1 and never invokes the update; the error is the negative-target
\* error when an API key is supplied and the fetch returns a service object,
\* the missing-key error when no key is supplied, and the fetch's error otherwise.
AbsoluteNegativeFails ==
    \A r \in Runs :
        Done(r) /\ Absolute(args[r]) /\ args[r].num_instances[1] < 0
        => /\ exit_code[r] = 1
           /\ updates[r] = <<>>
           /\ LastOut(r) = IF KeyMissing(r) THEN "err_api_key"
                           ELSE IF service[r].kind = "ok" THEN "err_negative"
                           ELSE "err_exception"

\* C4 witness: a negative absolute target was fetched for and refused.
AbsoluteNegativeRefused ==
    \E r \in Runs :
        /\ Done(r) /\ Absolute(args[r]) /\ args[r].num_instances[1] < 0
        /\ fetches[r] = 1 /\ service[r].kind = "ok"
        /\ LastOut(r) = "err_negative"

\* C5 (as claimed): with --dry-run set and a computed target different from
\* the count fetched, the update is never invoked, the plan is reported and
\* the run ends with exit code 0.  Stated for requests whose delta is not
\* negative, so that a violation does not rest on a negative delta.
DryRunReportsPlan ==
    \A r \in Runs :
        /\ NonNegativeDelta(args[r])
        /\ args[r].dry_run
        /\ target_instances[r] # None
        /\ target_instances[r] # current_instances[r]
        => /\ Done(r) /\ exit_code[r] = 0
           /\ updates[r] = <<>>
           /\ \E i \in DOMAIN out[r] : out[r][i] = "plan"

\* C5 (amended): with --dry-run set and a computed target that is not negative
\* and differs from the count fetched, the update is never invoked, the plan
\* is reported and the run ends with exit code 0.
DryRunReportsValidPlan ==
    \A r \in Runs :
        /\ args[r].dry_run
        /\ target_instances[r] # None
        /\ target_instances[r] # current_instances[r]
        /\ target_instances[r][1] >= 0
        => /\ Done(r) /\ exit_code[r] = 0
           /\ updates[r] = <<>>
           /\ \E i \in DOMAIN out[r] : out[r][i] = "plan"
           /\ LastOut(r) = "dry_run"

\* C5 witness: a dry run whose target differs from the count fetched.
DryRunPlanned ==
    \E r \in Runs :
        /\ Done(r) /\ args[r].dry_run
        /\ target_instances[r] # None
        /\ target_instances[r] # current_instances[r]
        /\ target_instances[r][1] >= 0

\* C6: when the computed target equals the count fetched, the update is never
\* invoked and the run ends with exit code 0, with or without --dry-run.
AtTargetNoUpdate ==
    \A r \in Runs :
        target_instances[r] # None /\ target_instances[r] = current_instances[r]
        => /\ Done(r) /\ exit_code[r] = 0
           /\ updates[r] = <<>>
           /\ LastOut(r) = "already_at_target"

\* C6 witness: a run without --dry-run found the service at its target.
AtTargetReached ==
    \E r \in Runs :
        /\ Done(r) /\ ~args[r].dry_run
        /\ target_instances[r] # None
        /\ target_instances[r] = current_instances[r]

\* C7: without --dry-run and with n >= 0, --increase-by n computes
\* current + n and --decrease-by n computes max(0, current - n), never
\* negative; when that differs from current the update is invoked, once,
\* with exactly that count, and the run exits 0 when the update succeeds.
RelativeScaling ==
    \A r \in Runs :
        /\ Increase(args[r]) \/ Decrease(args[r])
        /\ NonNegativeDelta(args[r])
        /\ ~args[r].dry_run
        /\ target_instances[r] # None
        => /\ target_instances[r] = Some(SnapshotTarget(r))
           /\ SnapshotTarget(r) >= 0
           /\ SnapshotTarget(r) # current_instances[r][1]
              => /\ pc[r] \in {"scale", "done"}
                 /\ Done(r) => updates[r] = <<SnapshotTarget(r)>>
                 /\ Done(r) /\ result[r] = "ok" => exit_code[r] = 0

\* C7 witness: current = 2 and --decrease-by 5 sent 0 and exited 0.
DecreaseClamped ==
    \E r \in Runs :
        /\ Done(r) /\ Decrease(args[r]) /\ args[r].decrease_by = Some(5)
        /\ current_instances[r] = Some(2)
        /\ updates[r] = <<0>> /\ result[r] = "ok" /\ exit_code[r] = 0

\* C8: when the fetch fails (non-2xx, transport failure or malformed JSON) the
\* update is never attempted, the fetch is not retried and the run ends with
\* exit code 1.
FetchFailureEndsRun ==
    \A r \in Runs :
        /\ fetches[r] <= 1
        /\ service[r].kind \in {"http_error", "transport", "bad_json"}
           => /\ Done(r) /\ exit_code[r] = 1
              /\ fetches[r] = 1
              /\ updates[r] = <<>>

\* C8 witness: a run whose fetch got a body that is not JSON.
FetchFailed ==
    \E r \in Runs : Done(r) /\ service[r].kind = "bad_json" /\ fetches[r] = 1

\* C9: when neither --api-key nor RENDER_API_KEY supplies a non-empty key, a
\* run whose command line parses ends with exit code 1 and makes no network
\* call.
MissingKeyNoCalls ==
    \A r \in Runs :
        pc[r] # "unused" /\ ParseOk(args[r]) /\ KeyMissing(r)
        => /\ pc[r] \in {"start", "done"}
           /\ Done(r) => exit_code[r] = 1 /\ LastOut(r) = "err_api_key"
           /\ fetches[r] = 0
           /\ updates[r] = <<>>

\* C9 witness: a run given an empty --api-key and no RENDER_API_KEY has ended.
MissingKeyExited ==
    \E r \in Runs :
        /\ Done(r) /\ ParseOk(args[r])
        /\ args[r].api_key = Some("") /\ environ[r] = None

\* C10: the count a run's update leaves on the server is the one computed
\* from that run's own fetch-time snapshot, whatever the count was when the
\* update arrived: a change made in between is overwritten.
UpdateOverwrites ==
    [][\A r \in Runs :
          pc[r] = "scale" /\ pc'[r] = "done" /\ Applied(result'[r])
          => remote' = SnapshotTarget(r)]_vars

\* C10 witness: two --increase-by runs fetched the same count c before either
\* updated; both updates succeeded and the count is c + n of the last one,
\* not c + n1 + n2.
LostUpdate ==
    \E r, q \in Runs :
        /\ r # q
        /\ Increase(args[r]) /\ Increase(args[q])
        /\ args[r].increase_by[1] > 0 /\ args[q].increase_by[1] > 0
        /\ Done(r) /\ Done(q) /\ result[r] = "ok" /\ result[q] = "ok"
        /\ current_instances[r] = current_instances[q]
        /\ remote = current_instances[q][1] + args[q].increase_by[1]
        /\ remote < current_instances[q][1] + args[q].increase_by[1]
                    + args[r].increase_by[1]

====
